---- MODULE Spec2Model ----
(***************************************************************************)
(* Model of the spell checker's Trie (src/trie.h, version 1.6), of the     *)
(* spell checker's load/query loop (spellchecker.cpp) and of the random    *)
(* misspelling generator (src/wordgenerator.cpp).                          *)
(*                                                                         *)
(* A character is a one-character string, a word is a sequence of          *)
(* characters.  A Node is identified by the sequence of child slots that   *)
(* leads to it from the root; the tree is a function from the nodes that   *)
(* exist to their fields.                                                  *)
(***************************************************************************)
EXTENDS Naturals, Sequences, FiniteSets

VARIABLES tree,       \* Trie::root and every Node below it
          nodeCount,  \* Trie::nodeCount
          inserted,   \* history: the arguments addWord has been called with
          lastOp,     \* the operation that ran last
          arg,        \* its argument
          found,      \* the value search returned
          results,    \* the set getCorrections returned
          calls,      \* the fuzzySearch calls getCorrections made
          dictFile,   \* verification run: the words of the dictionary file
          loaded,     \* verification run: the words the spell checker has read
          pipe,       \* verification run: the generator's line in the pipe
          output,     \* verification run: what the spell checker printed last
          iteration   \* verification run: the generator's loop counter i

vars == <<tree, nodeCount, inserted, lastOp, arg, found, results, calls,
          dictFile, loaded, pipe, output, iteration>>

trieVars == <<tree, nodeCount, inserted, lastOp, arg, found, results, calls>>
runVars == <<dictFile, loaded, pipe, output, iteration>>

----------------------------------------------------------------------------
(* Characters *)

LowerLetters == <<"a","b","c","d","e","f","g","h","i","j","k","l","m",
                  "n","o","p","q","r","s","t","u","v","w","x","y","z">>

UpperLetters == <<"A","B","C","D","E","F","G","H","I","J","K","L","M",
                  "N","O","P","Q","R","S","T","U","V","W","X","Y","Z">>

LowerSet == { LowerLetters[i] : i \in DOMAIN LowerLetters }

UpperSet == { UpperLetters[i] : i \in DOMAIN UpperLetters }

\* the lowercase letter of every uppercase letter, and the reverse
LowerOf == [c \in UpperSet |->
              LowerLetters[CHOOSE i \in DOMAIN UpperLetters : UpperLetters[i] = c]]

UpperOf == [c \in LowerSet |->
              UpperLetters[CHOOSE i \in DOMAIN LowerLetters : LowerLetters[i] = c]]

islower(c) == c \in LowerSet

isupper(c) == c \in UpperSet

isalpha(c) == islower(c) \/ isupper(c)

tolower(c) == IF isupper(c) THEN LowerOf[c] ELSE c

toupper(c) == IF islower(c) THEN UpperOf[c] ELSE c

\* std::transform(temp.begin(), temp.end(), temp.begin(), ::tolower)
ToLower(word) == [i \in 1..Len(word) |-> tolower(word[i])]

Vowels == {"a", "e", "i", "o", "u"}

isVowel(c) == (c = "a") \/ (c = "e") \/ (c = "i") \/ (c = "o") \/ (c = "u")

----------------------------------------------------------------------------
(* Node *)

\* the null pointer: no node has this path, a slot is always a letter
Null == <<"nullptr">>

\* Node(): no child, not an endpoint, empty word
NewNode == [isEndpoint |-> FALSE, word |-> <<>>]

Root == <<>>

\* Node::getChild: the child in the slot of letter c, whatever c's case
getChild(t, node, c) ==
  IF Append(node, tolower(c)) \in DOMAIN t
  THEN Append(node, tolower(c))
  ELSE Null

\* currentNode->getChild(c) = new Node()
setChild(t, node, c) ==
  [n \in DOMAIN t \cup {Append(node, tolower(c))} |->
     IF n \in DOMAIN t THEN t[n] ELSE NewNode]

----------------------------------------------------------------------------
(* Trie *)

\* addWordLoop with "builder += c" moved above the isalpha test
RECURSIVE addWordLoopBuildingEveryChar(_, _, _, _, _, _)
addWordLoopBuildingEveryChar(t, count, currentNode, builder, word, i) ==
  IF i > Len(word)
  THEN [tree |-> t, nodeCount |-> count, currentNode |-> currentNode]
  ELSE
    LET c  == word[i]
        b1 == Append(builder, c)
    IN
    IF ~isalpha(c)
    THEN addWordLoopBuildingEveryChar(t, count, currentNode, b1, word, i + 1)
    ELSE
      LET absent == getChild(t, currentNode, c) = Null
          t1     == IF absent THEN setChild(t, currentNode, c) ELSE t
          count1 == IF absent THEN count + 1 ELSE count
          child  == getChild(t1, currentNode, c)
          t2     == [t1 EXCEPT ![child].word = b1]
      IN addWordLoopBuildingEveryChar(t2, count1, child, b1, word, i + 1)

\* addWordLoop with "++nodeCount" outside the test for an absent child
RECURSIVE addWordLoopCountingEveryLetter(_, _, _, _, _, _)
addWordLoopCountingEveryLetter(t, count, currentNode, builder, word, i) ==
  IF i > Len(word)
  THEN [tree |-> t, nodeCount |-> count, currentNode |-> currentNode]
  ELSE
    LET c == word[i] IN
    IF ~isalpha(c)
    THEN addWordLoopCountingEveryLetter(t, count, currentNode, builder, word, i + 1)
    ELSE
      LET absent == getChild(t, currentNode, c) = Null
          t1     == IF absent THEN setChild(t, currentNode, c) ELSE t
          count1 == count + 1
          child  == getChild(t1, currentNode, c)
          b1     == Append(builder, c)
          t2     == [t1 EXCEPT ![child].word = b1]
      IN addWordLoopCountingEveryLetter(t2, count1, child, b1, word, i + 1)

\* addWordLoop without the test for an absent child: the child and all below
\* it are replaced by a new Node
RECURSIVE addWordLoopAlwaysNew(_, _, _, _, _, _)
addWordLoopAlwaysNew(t, count, currentNode, builder, word, i) ==
  IF i > Len(word)
  THEN [tree |-> t, nodeCount |-> count, currentNode |-> currentNode]
  ELSE
    LET c == word[i] IN
    IF ~isalpha(c)
    THEN addWordLoopAlwaysNew(t, count, currentNode, builder, word, i + 1)
    ELSE
      LET child  == Append(currentNode, tolower(c))
          kept   == { n \in DOMAIN t :
                        ~(Len(n) >= Len(child) /\ SubSeq(n, 1, Len(child)) = child) }
          b1     == Append(builder, c)
          t2     == [n \in kept \cup {child} |->
                       IF n = child
                       THEN [isEndpoint |-> FALSE, word |-> b1]
                       ELSE t[n]]
      IN addWordLoopAlwaysNew(t2, count + 1, child, b1, word, i + 1)

\* The loop of addWord from character i on; the result is the tree, the
\* node count and the node the loop ends on.
RECURSIVE addWordLoop(_, _, _, _, _, _)
addWordLoop(t, count, currentNode, builder, word, i) ==
  IF i > Len(word)
  THEN [tree |-> t, nodeCount |-> count, currentNode |-> currentNode]
  ELSE
    LET c == word[i] IN
    IF ~isalpha(c)
    THEN addWordLoop(t, count, currentNode, builder, word, i + 1)
    ELSE
      LET absent == getChild(t, currentNode, c) = Null
          t1     == IF absent THEN setChild(t, currentNode, c) ELSE t
          count1 == IF absent THEN count + 1 ELSE count
          child  == getChild(t1, currentNode, c)
          b1     == Append(builder, c)
          t2     == [t1 EXCEPT ![child].word = b1]
      IN addWordLoop(t2, count1, child, b1, word, i + 1)

\* addWord without "currentNode->isEndpoint = true"
addWordWithoutEndpoint(t, count, word) ==
  LET r == addWordLoop(t, count, Root, <<>>, word, 1) IN
  [tree |-> r.tree, nodeCount |-> r.nodeCount]

\* addWord storing its argument in the node the loop ends on, as the
\* versions before 1.6 did
addWordStoringWholeWord(t, count, word) ==
  LET r == addWordLoop(t, count, Root, <<>>, word, 1) IN
  [tree      |-> [r.tree EXCEPT ![r.currentNode].isEndpoint = TRUE,
                                ![r.currentNode].word = word],
   nodeCount |-> r.nodeCount]

addWord(t, count, word) ==
  LET r == addWordLoop(t, count, Root, <<>>, word, 1) IN
  [tree      |-> [r.tree EXCEPT ![r.currentNode].isEndpoint = TRUE],
   nodeCount |-> r.nodeCount]

\* searchLoop returning true whenever the walk completes
RECURSIVE searchLoopIgnoringEndpoint(_, _, _, _)
searchLoopIgnoringEndpoint(t, currentNode, word, i) ==
  IF i > Len(word)
  THEN TRUE
  ELSE
    LET c == word[i] IN
    IF ~isalpha(c)
    THEN searchLoopIgnoringEndpoint(t, currentNode, word, i + 1)
    ELSE IF getChild(t, currentNode, c) = Null
         THEN FALSE
         ELSE searchLoopIgnoringEndpoint(t, getChild(t, currentNode, c), word, i + 1)

RECURSIVE searchLoop(_, _, _, _)
searchLoop(t, currentNode, word, i) ==
  IF i > Len(word)
  THEN t[currentNode].isEndpoint
  ELSE
    LET c == word[i] IN
    IF ~isalpha(c)
    THEN searchLoop(t, currentNode, word, i + 1)
    ELSE IF getChild(t, currentNode, c) = Null
         THEN FALSE
         ELSE searchLoop(t, getChild(t, currentNode, c), word, i + 1)

search(t, word) == searchLoop(t, Root, word, 1)

\* word.substr(k): the word without its first k characters
substr(word, k) == SubSeq(word, k + 1, Len(word))

\* vowelCalls without the tests for nullptr
vowelCallsUnguarded(t, word, currentNode) ==
  { <<substr(word, 1), getChild(t, currentNode, v)>> : v \in Vowels }

\* vowelCalls without the block for 'o'
vowelCallsWithoutO(t, word, currentNode) ==
  { <<substr(word, 1), getChild(t, currentNode, v)>> :
      v \in { x \in Vowels \ {"o"} : getChild(t, currentNode, x) # Null } }

\* the five guarded calls "continue searching with a vowel permutation"
vowelCalls(t, word, currentNode) ==
  { <<substr(word, 1), getChild(t, currentNode, v)>> :
      v \in { x \in Vowels : getChild(t, currentNode, x) # Null } }

\* duplicateCalls passing word.substr(1): the duplicate is not skipped
duplicateCallsKeepingDuplicate(t, word, currentNode) ==
  IF Len(word) < 2
  THEN {}
  ELSE IF (word[2] = word[1]) /\ (getChild(t, currentNode, word[2]) # Null)
       THEN { <<substr(word, 1), getChild(t, currentNode, word[2])>> }
       ELSE {}

\* duplicateCalls without the test that the two letters are the same
duplicateCallsSkippingAnyLetter(t, word, currentNode) ==
  IF Len(word) < 2
  THEN {}
  ELSE IF getChild(t, currentNode, word[2]) # Null
       THEN { <<substr(word, 2), getChild(t, currentNode, word[2])>> }
       ELSE {}

\* duplicateCalls passing word.substr(3)
duplicateCallsSkippingThree(t, word, currentNode) ==
  IF Len(word) < 2
  THEN {}
  ELSE IF (word[2] = word[1]) /\ (getChild(t, currentNode, word[2]) # Null)
       THEN { <<substr(word, 3), getChild(t, currentNode, word[2])>> }
       ELSE {}

\* duplicateCalls skipping every run of the first letter, as version 1.4 did
duplicateCallsSkippingAllDuplicates(t, word, currentNode) ==
  IF Len(word) < 2
  THEN {}
  ELSE IF getChild(t, currentNode, word[1]) # Null
       THEN { <<substr(word, k), getChild(t, currentNode, word[1])>> :
                k \in { j \in 2..Len(word) : \A m \in 1..j : word[m] = word[1] } }
       ELSE {}

\* the guarded call "skip a duplicate letter"
duplicateCalls(t, word, currentNode) ==
  IF Len(word) < 2
  THEN {}
  ELSE IF (word[2] = word[1]) /\ (getChild(t, currentNode, word[2]) # Null)
       THEN { <<substr(word, 2), getChild(t, currentNode, word[2])>> }
       ELSE {}

\* fuzzyCalls trying the other vowels only when the vowel has no child
fuzzyCallsExactVowelFirst(t, word, currentNode) ==
  LET c == word[1] IN
  IF getChild(t, currentNode, c) # Null
  THEN { <<substr(word, 1), getChild(t, currentNode, c)>> }
         \cup duplicateCalls(t, word, currentNode)
  ELSE IF isVowel(c)
       THEN vowelCalls(t, word, currentNode)
              \cup duplicateCalls(t, word, currentNode)
       ELSE {}

\* The recursive calls one execution of fuzzySearch(word, currentNode) makes
\* for a non-empty word, each as <<word passed, node passed>>.
fuzzyCalls(t, word, currentNode) ==
  LET c == word[1] IN
  IF getChild(t, currentNode, c) # Null
  THEN IF ~isVowel(c)
       THEN { <<substr(word, 1), getChild(t, currentNode, c)>> }
              \cup duplicateCalls(t, word, currentNode)
       ELSE { <<substr(word, 1), getChild(t, currentNode, c)>> }
              \cup vowelCalls(t, word, currentNode)
              \cup duplicateCalls(t, word, currentNode)
  ELSE IF isVowel(c)
       THEN vowelCalls(t, word, currentNode)
              \cup duplicateCalls(t, word, currentNode)
       ELSE {}

\* The set fuzzySearch(word, currentNode, results) adds to results.
RECURSIVE fuzzySearch(_, _, _)
fuzzySearch(t, word, currentNode) ==
  IF Len(word) = 0
  THEN IF t[currentNode].isEndpoint THEN { t[currentNode].word } ELSE {}
  ELSE UNION { fuzzySearch(t, call[1], call[2]) :
                 call \in fuzzyCalls(t, word, currentNode) }

\* Every call of fuzzySearch made below fuzzySearch(word, currentNode),
\* that call included, as <<word, node, depth>>.  A call on the null
\* pointer is recorded and not followed.
RECURSIVE fuzzyTrace(_, _, _, _)
fuzzyTrace(t, word, currentNode, depth) ==
  { <<word, currentNode, depth>> } \cup
  IF (currentNode \notin DOMAIN t) \/ (Len(word) = 0)
  THEN {}
  ELSE UNION { fuzzyTrace(t, call[1], call[2], depth + 1) :
                 call \in fuzzyCalls(t, word, currentNode) }

\* getCorrections without the exact-match test
getCorrectionsAlwaysFuzzy(t, word) ==
  fuzzySearch(t, ToLower(word), Root)

getCorrections(t, word) ==
  LET temp == ToLower(word) IN
  IF search(t, temp) = TRUE
  THEN { temp }
  ELSE fuzzySearch(t, temp, Root)

\* the fuzzySearch calls of getCorrections(word): none on an exact match
getCorrectionsCalls(t, word) ==
  LET temp == ToLower(word) IN
  IF search(t, temp) = TRUE
  THEN {}
  ELSE fuzzyTrace(t, temp, Root, 0)

----------------------------------------------------------------------------
(* The words the callers pass in *)

MaxWords == 4   \* distinct words addWord is called with in one run

cat  == <<"c","a","t">>
cot  == <<"c","o","t">>
coot == <<"c","o","o","t">>
dog  == <<"d","o","g">>

ToyDictionary == { cat, cot, coot, dog }

\* the arguments of addWord: the toy dictionary, the empty word, a word
\* with an apostrophe and the same without it, a capitalised word, a word
\* without a letter
InsertWords ==
  ToyDictionary \cup
  { <<>>, <<"d","o","n","'","t">>, <<"d","o","n","t">>, <<"C","a","t">>,
    <<"'">> }

IsAlphabetic(word) == \A i \in 1..Len(word) : isalpha(word[i])

IsLowerAlphabetic(word) == \A i \in 1..Len(word) : islower(word[i])

\* the word without its non-alphabetic characters
RECURSIVE Letters(_)
Letters(word) ==
  IF word = <<>>
  THEN <<>>
  ELSE IF isalpha(Head(word))
       THEN <<Head(word)>> \o Letters(Tail(word))
       ELSE Letters(Tail(word))

\* d with every vowel kept or replaced by another vowel
VowelVariants(d) ==
  LET P == { i \in 1..Len(d) : isVowel(d[i]) } IN
  { [i \in 1..Len(d) |-> IF i \in P THEN f[i] ELSE d[i]] : f \in [P -> Vowels] }

\* q with its i-th letter doubled
Doubled(q, i) == SubSeq(q, 1, i) \o SubSeq(q, i, Len(q))

\* the error classes: any subset of d's vowels replaced by other vowels,
\* and/or a single letter doubled once
Corruptions(d) ==
  VowelVariants(d) \cup
  { Doubled(q, i) : <<q, i>> \in { qi \in VowelVariants(d) \X (1..Len(d)) : TRUE } }

\* the same, where the doubled letter is not a vowel that was replaced
CorruptionsKeepingDoubledVowel(d) ==
  VowelVariants(d) \cup
  { Doubled(qi[1], qi[2]) :
      qi \in { x \in VowelVariants(d) \X (1..Len(d)) : x[1][x[2]] = d[x[2]] } }

Prefixes(word) == { SubSeq(word, 1, k) : k \in 0..Len(word) }

\* the arguments of search
SearchQueries ==
  InsertWords
    \cup { ToLower(w) : w \in InsertWords }
    \cup UNION { Prefixes(w) : w \in ToyDictionary }
    \cup { <<"C","A","T">>, <<"c","a","t","s">>, <<"c","'","a","t">>,
           <<"x","y","z">>, <<"c","o","o","o","t">>, <<"'">> }

\* the arguments of getCorrections
CorrectQueries ==
  SearchQueries
    \cup UNION { Corruptions(d) : d \in ToyDictionary }
    \cup { <<"C","I","T">>, <<"c","c","o","o","t","t">>, <<"d","u","n","t">>,
           <<"c","c","c","a","t">>, <<"d","d","o","g","g">>,
           <<"c","c","c","c","c","a","t">>, <<"c","t","a">>, <<"c","t">>,
           <<"b","a","t">> }

----------------------------------------------------------------------------
(* The Trie under its callers *)

NoWord == <<>>

Init ==
  /\ tree = [n \in {Root} |-> NewNode]
  /\ nodeCount = 0
  /\ inserted = {}
  /\ lastOp = "Trie"
  /\ arg = NoWord
  /\ found = FALSE
  /\ results = {}
  /\ calls = {}
  /\ dictFile = {}
  /\ loaded = {}
  /\ pipe = <<>>
  /\ output = "Welcome"
  /\ iteration = 0

\* a query has returned and its result is still held by the caller
Pending == lastOp \in {"search", "getCorrections", "crashed"}

AddWord(word) ==
  /\ ~Pending
  /\ Cardinality(inserted \cup {word}) <= MaxWords
  /\ tree' = addWord(tree, nodeCount, word).tree
  /\ nodeCount' = addWord(tree, nodeCount, word).nodeCount
  /\ inserted' = inserted \cup {word}
  /\ lastOp' = "addWord"
  /\ arg' = word
  /\ found' = FALSE
  /\ results' = {}
  /\ calls' = {}
  /\ UNCHANGED runVars

\* Search walking the tree with the slot addWord assigns to: the nodes of the
\* word are created
SearchCreatingNodes(word) ==
  /\ ~Pending
  /\ lastOp' = "search"
  /\ arg' = word
  /\ found' = search(tree, word)
  /\ results' = {}
  /\ calls' = {}
  /\ tree' = addWordLoop(tree, nodeCount, Root, <<>>, word, 1).tree
  /\ UNCHANGED <<nodeCount, inserted>>
  /\ UNCHANGED runVars

Search(word) ==
  /\ ~Pending
  /\ lastOp' = "search"
  /\ arg' = word
  /\ found' = search(tree, word)
  /\ results' = {}
  /\ calls' = {}
  /\ UNCHANGED <<tree, nodeCount, inserted>>
  /\ UNCHANGED runVars

\* A non-alphabetic character reaches Node::getChild only in fuzzySearch:
\* getCorrections is called with alphabetic words or with words search finds.
GetCorrections(word) ==
  /\ ~Pending
  /\ IsAlphabetic(word) \/ search(tree, ToLower(word))
  /\ arg' = word
  /\ found' = FALSE
  /\ calls' = getCorrectionsCalls(tree, word)
  /\ IF \E call \in calls' : call[2] = Null
     THEN \* a call on the null pointer: the program does not return
          /\ lastOp' = "crashed"
          /\ results' = {}
     ELSE /\ lastOp' = "getCorrections"
          /\ results' = getCorrections(tree, word)
  /\ UNCHANGED <<tree, nodeCount, inserted>>
  /\ UNCHANGED runVars

\* the caller drops the result of the query (the set is a local of its loop)
Discard ==
  /\ lastOp \in {"search", "getCorrections"}
  /\ lastOp' = "discard"
  /\ arg' = NoWord
  /\ found' = FALSE
  /\ results' = {}
  /\ calls' = {}
  /\ UNCHANGED <<tree, nodeCount, inserted>>
  /\ UNCHANGED runVars

Next ==
  \/ \E word \in InsertWords : AddWord(word)
  \/ \E word \in SearchQueries : Search(word)
  \/ \E word \in CorrectQueries : GetCorrections(word)
  \/ Discard

Spec == Init /\ [][Next]_vars

----------------------------------------------------------------------------
(* The verification run: wordgenerator.out | spellchecker.out *)

Abe == <<"A","b","e">>

\* the words a dictionary file is made of
DictWords == { cot, coot, Abe }

\* the number of misspellings the generator writes
GeneratedWords == 50

\* the line that ends the spell checker
Sentinel == <<"-","1">>

\* What the generator can append for character c of the word it picked: a
\* lowercase vowel is kept or replaced by one of the five vowels, any other
\* character is doubled, upper-cased or kept.
misspelledChar(c) ==
  IF (c = "a") \/ (c = "e") \/ (c = "i") \/ (c = "o") \/ (c = "u")
  THEN { <<v>> : v \in {"u", "o", "i", "e", "a"} } \cup { <<c>> }
  ELSE { <<c, c>>, <<toupper(c)>>, <<c>> }

\* the misspellings of startingWord the generator can write
RECURSIVE misspelledWords(_)
misspelledWords(startingWord) ==
  IF startingWord = <<>>
  THEN { <<>> }
  ELSE { first \o rest : first \in misspelledChar(Head(startingWord)),
                          rest \in misspelledWords(Tail(startingWord)) }

isValidInput(input) ==
  IF input = <<>>
  THEN FALSE
  ELSE \A k \in 1..Len(input) : isalpha(input[k])

InitVerify ==
  /\ tree = [n \in {Root} |-> NewNode]
  /\ nodeCount = 0
  /\ inserted = {}
  /\ lastOp = "Trie"
  /\ arg = NoWord
  /\ found = FALSE
  /\ results = {}
  /\ calls = {}
  /\ dictFile \in (SUBSET DictWords) \ {{}}
  /\ loaded = {}
  /\ pipe = <<>>
  /\ output = "Welcome"
  /\ iteration = 0

\* the spell checker reads a word of the file, lowercases it and adds it
LoadWord(reader) ==
  /\ reader \in dictFile \ loaded
  /\ tree' = addWord(tree, nodeCount, ToLower(reader)).tree
  /\ nodeCount' = addWord(tree, nodeCount, ToLower(reader)).nodeCount
  /\ inserted' = inserted \cup { ToLower(reader) }
  /\ loaded' = loaded \cup { reader }
  /\ lastOp' = "addWord"
  /\ arg' = ToLower(reader)
  /\ UNCHANGED <<found, results, calls, dictFile, pipe, output, iteration>>

\* one iteration of the generator's loop; the pipe holds one line
Generate(startingWord, misspelledWord) ==
  /\ iteration < GeneratedWords
  /\ pipe = <<>>
  /\ startingWord \in dictFile
  /\ misspelledWord \in misspelledWords(startingWord)
  /\ pipe' = misspelledWord
  /\ iteration' = iteration + 1
  /\ UNCHANGED <<trieVars, dictFile, loaded, output>>

\* after the loop the generator writes the sentinel
GenerateDone ==
  /\ iteration = GeneratedWords
  /\ pipe = <<>>
  /\ pipe' = Sentinel
  /\ iteration' = iteration + 1
  /\ UNCHANGED <<trieVars, dictFile, loaded, output>>

\* one iteration of the spell checker's loop on the line userInput
CheckWord ==
  /\ loaded = dictFile
  /\ output # "Terminating"
  /\ pipe # <<>>
  /\ pipe' = <<>>
  /\ LET userInput == pipe IN
     IF userInput = Sentinel
     THEN /\ output' = "Terminating"
          /\ results' = {}
     ELSE IF isValidInput(userInput) = TRUE
          THEN LET corrections == getCorrections(tree, userInput) IN
               /\ results' = corrections
               /\ output' = IF corrections # {}
                            THEN "Suggestion(s)"
                            ELSE "No Suggestions"
          ELSE /\ output' = "Invalid input"
               /\ results' = {}
  /\ lastOp' = "spellchecker"
  /\ arg' = NoWord
  /\ UNCHANGED <<tree, nodeCount, inserted, found, calls, dictFile, loaded, iteration>>

NextVerify ==
  \/ \E reader \in DictWords : LoadWord(reader)
  \/ \E startingWord \in DictWords :
       \E misspelledWord \in misspelledWords(startingWord) :
         Generate(startingWord, misspelledWord)
  \/ GenerateDone
  \/ CheckWord

SpecVerify == InitVerify /\ [][NextVerify]_vars

----------------------------------------------------------------------------
(* Properties *)

NoUppercase(word) == \A i \in 1..Len(word) : ~isupper(word[i])

\* every word passed to addWord so far is lowercase and alphabetic
LowercaseDictionary == \A w \in inserted : IsLowerAlphabetic(w)

\* C1 as stated: over a dictionary of lowercase alphabetic words, the
\* corrections of a query made from a dictionary word d by replacing vowels
\* by vowels and/or doubling one letter contain d.
C1_NoFalseNegatives ==
  (lastOp = "getCorrections" /\ LowercaseDictionary) =>
    \A d \in inserted : arg \in Corruptions(d) => d \in results

\* C1, amended: the same when the query is not itself found by search and the
\* doubled letter is not a vowel that was replaced.
C1_NoFalseNegativesForUnknownQuery ==
  (lastOp = "getCorrections" /\ LowercaseDictionary) =>
    \A d \in inserted :
      (arg \in CorruptionsKeepingDoubledVowel(d) /\ ~search(tree, arg))
        => d \in results

C1_Witness ==
  /\ lastOp = "getCorrections"
  /\ LowercaseDictionary
  /\ coot \in inserted
  /\ arg = <<"c","c","i","u","t">>
  /\ coot \in results

\* C2: when search finds the query, getCorrections returns exactly the set
\* of the lowercased query and makes no fuzzySearch call.
C2_ExactMatchShortCircuit ==
  (lastOp = "getCorrections" /\ search(tree, arg)) =>
    (results = { ToLower(arg) } /\ calls = {})

C2_Witness ==
  /\ lastOp = "getCorrections"
  /\ { cat, cot } \subseteq inserted
  /\ arg = <<"C","A","T">>
  /\ results = { cat }

\* C3: search finds the lowercased form of every word addWord was called with.
C3_RoundTrip ==
  \A w \in inserted : search(tree, ToLower(w))

C3_Witness ==
  /\ lastOp = "search"
  /\ <<"C","a","t">> \in inserted
  /\ cat \notin inserted
  /\ arg = cat
  /\ found = TRUE

\* C4 as stated: getCorrections of the empty word returns the empty set in
\* every state.
C4_EmptyQueryNoMatch ==
  (lastOp = "getCorrections" /\ arg = <<>>) => results = {}

\* C5: every fuzzySearch call of getCorrections is made on a node that
\* exists, one edge below its caller's; what the calls return are stored
\* words of endpoint nodes of the tree; and over a lowercase alphabetic
\* dictionary every correction of an alphabetic query is the stored word of
\* an endpoint node and a word addWord was called with.
C5_PruningCorrectness ==
  (lastOp \in {"getCorrections", "crashed"}) =>
    /\ \A call \in calls :
         /\ call[2] \in DOMAIN tree
         /\ Len(call[2]) = call[3]
         /\ \A k \in 0..Len(call[2]) : SubSeq(call[2], 1, k) \in DOMAIN tree
    /\ (calls # {}) => results \subseteq { tree[n].word : n \in { m \in DOMAIN tree : tree[m].isEndpoint } }
    /\ (LowercaseDictionary /\ IsAlphabetic(arg)) =>
         /\ results \subseteq inserted
         /\ results \subseteq { tree[n].word : n \in { m \in DOMAIN tree : tree[m].isEndpoint } }

C5_Witness ==
  /\ lastOp = "getCorrections"
  /\ LowercaseDictionary
  /\ arg = <<"c","e","t">>
  /\ results = { cat, cot }
  /\ \E call \in calls : call[2] = <<"c","o">> /\ call[1] = <<"t">>

ccat == <<"c","c","a","t">>

\* C6 as stated: over the toy dictionary the corrections of "ccat" are
\* exactly {"cat"}.
C6_CcatGivesCat ==
  (lastOp = "getCorrections" /\ inserted = ToyDictionary /\ arg = ccat) =>
    results = { cat }

\* C6, amended: over the toy dictionary the corrections of "ccat" are
\* exactly {"cat", "cot"}.
C6_CcatGivesCatAndCot ==
  (lastOp = "getCorrections" /\ inserted = ToyDictionary /\ arg = ccat) =>
    results = { cat, cot }

C6_Witness ==
  /\ lastOp = "getCorrections"
  /\ inserted = ToyDictionary
  /\ arg = ccat
  /\ cot \in results

\* the queries getCorrections answers whatever the tree is
AlphabeticQueries == { x \in CorrectQueries : IsAlphabetic(x) }

\* C7 as stated: calling addWord with a word it was called with before
\* leaves nodeCount, every search result and every correction set unchanged.
C7_IdempotentInsertion ==
  [][(lastOp' = "addWord" /\ arg' \in inserted) =>
       /\ nodeCount' = nodeCount
       /\ \A x \in SearchQueries : search(tree', x) = search(tree, x)
       /\ \A x \in AlphabeticQueries :
            getCorrections(tree', x) = getCorrections(tree, x)]_vars

\* C8: in the verification run every misspelling the generator writes for a
\* word of the dictionary file has a correction, and the spell checker never
\* prints "No Suggestions".
C8_VerificationFindsSuggestions ==
  /\ output # "No Suggestions"
  /\ (loaded = dictFile /\ pipe # <<>> /\ pipe # Sentinel) =>
       getCorrections(tree, pipe) # {}

C8_Witness ==
  /\ output = "Suggestion(s)"
  /\ iteration = 2
  /\ pipe = <<"A","A","B","u">>
  /\ results = { cot, coot }

\* C9 as stated: over lowercase words, search finds x exactly when x without
\* its non-alphabetic characters is such a word without its own.
C9_ExactLookup ==
  (lastOp = "search" /\ \A w \in inserted : NoUppercase(w)) =>
    (found <=> \E w \in inserted : Letters(arg) = Letters(w))

\* C9, amended: search finds x exactly when the lowercased x without its
\* non-alphabetic characters is an inserted word without its own.
C9_ExactLookupIgnoringCase ==
  (lastOp = "search" /\ \A w \in inserted : NoUppercase(w)) =>
    (found <=> \E w \in inserted : Letters(ToLower(arg)) = Letters(w))

C9_Witness ==
  /\ lastOp = "search"
  /\ \A w \in inserted : NoUppercase(w)
  /\ coot \in inserted
  /\ arg = <<"c","o","o">>
  /\ found = FALSE

\* C10: addWord of a word leaves the tree and the node count that addWord of
\* its alphabetic characters alone leaves.
C10_NonAlphabeticIgnored ==
  [][(lastOp' = "addWord") =>
       /\ tree' = addWord(tree, nodeCount, Letters(arg')).tree
       /\ nodeCount' = addWord(tree, nodeCount, Letters(arg')).nodeCount]_vars

C10_Witness ==
  /\ lastOp = "addWord"
  /\ arg = <<"d","o","n","'","t">>
  /\ <<"d","o","n","t">> \notin inserted
  /\ <<"d","o","n","t">> \in DOMAIN tree
  /\ tree[<<"d","o","n","t">>] = [isEndpoint |-> TRUE, word |-> <<"d","o","n","t">>]
  /\ nodeCount = 4

cit == <<"c","i","t">>

\* C11: over the toy dictionary the corrections of "cit" are exactly
\* {"cat", "cot"}.
C11_CitGivesCatAndCot ==
  (lastOp = "getCorrections" /\ inserted = ToyDictionary /\ arg = cit) =>
    results = { cat, cot }

C11_Witness ==
  /\ lastOp = "getCorrections"
  /\ inserted = ToyDictionary
  /\ arg = cit
  /\ results = { cat, cot }
  /\ \E call \in calls : call[1] = <<>> /\ call[2] = cat

\* the non-empty alphabetic queries
NonEmptyAlphabeticQueries == { x \in AlphabeticQueries : x # <<>> }

\* C12: addWord of a word without a letter creates no node, leaves the node
\* count, every node below the root and the root's word as they were, and
\* leaves search and getCorrections of every non-empty alphabetic query
\* unchanged.
C12_EmptyInsertion ==
  [][(lastOp' = "addWord" /\ Letters(arg') = <<>>) =>
       /\ DOMAIN tree' = DOMAIN tree
       /\ nodeCount' = nodeCount
       /\ \A n \in DOMAIN tree : n # Root => tree'[n] = tree[n]
       /\ tree'[Root].word = tree[Root].word
       /\ tree'[Root].isEndpoint = TRUE
       /\ \/ tree' = tree
          \/ \A x \in NonEmptyAlphabeticQueries :
               /\ search(tree', x) = search(tree, x)
               /\ getCorrections(tree', x) = getCorrections(tree, x)]_vars

C12_Witness ==
  /\ lastOp = "addWord"
  /\ arg = <<"'">>
  /\ inserted = { cat, cot, <<"'">> }
  /\ tree[Root] = [isEndpoint |-> TRUE, word |-> <<>>]
  /\ nodeCount = 5

\* C13 as stated: a node below the root that is an endpoint stores the
\* path that leads to it, and that path is made of lowercase letters.
C13_EndpointWord ==
  \A n \in DOMAIN tree :
    (n # Root /\ tree[n].isEndpoint) =>
      (tree[n].word = n /\ IsLowerAlphabetic(n))

\* q can be cut into Len(d) consecutive blocks, the i-th being one letter
\* (d[i] itself, or any vowel when d[i] is a vowel) or d[i] twice
RECURSIVE CutsInto(_, _)
CutsInto(q, d) ==
  IF d = <<>>
  THEN q = <<>>
  ELSE IF q = <<>>
       THEN FALSE
       ELSE \/ /\ IF isVowel(d[1]) THEN isVowel(q[1]) ELSE q[1] = d[1]
               /\ CutsInto(Tail(q), Tail(d))
            \/ /\ Len(q) >= 2
               /\ q[1] = d[1]
               /\ q[2] = d[1]
               /\ CutsInto(Tail(Tail(q)), Tail(d))

\* C14: over a lowercase alphabetic dictionary the corrections of a
\* lowercase alphabetic query that search does not find are exactly the
\* dictionary words the query can be cut into.
C14_ResultCharacterisation ==
  (/\ lastOp = "getCorrections"
   /\ LowercaseDictionary
   /\ IsLowerAlphabetic(arg)
   /\ ~search(tree, arg)) =>
    results = { d \in inserted : CutsInto(arg, d) }

C14_Witness ==
  /\ lastOp = "getCorrections"
  /\ inserted = { cot, coot, dog }
  /\ arg = <<"c","c","u","o","t">>
  /\ results = { coot }

\* the slots that lead to the nodes of the non-empty letter prefixes of the
\* words addWord was called with
PrefixNodes(words) ==
  { ToLower(p) : p \in UNION { Prefixes(Letters(w)) \ { <<>> } : w \in words } }

\* C15: the nodes below the root are the nodes of the non-empty letter
\* prefixes of the inserted words, one for each, and nodeCount is their
\* number: addWord has created and counted a node only for a prefix that had
\* none.
C15_PrefixSharing ==
  /\ DOMAIN tree \ { Root } = PrefixNodes(inserted)
  /\ nodeCount = Cardinality(DOMAIN tree \ { Root })
  /\ nodeCount = Cardinality(PrefixNodes(inserted))

C15_Witness ==
  /\ lastOp = "addWord"
  /\ inserted = { cat, cot, coot }
  /\ arg = coot
  /\ nodeCount = 7

\* C16: every fuzzySearch call passes to the calls it makes a word shorter
\* than its own by one or two characters, and no call is deeper than the
\* query is long.
C16_Termination ==
  (lastOp \in {"getCorrections", "crashed"}) =>
    \A call \in calls :
      /\ call[3] <= Len(arg)
      /\ call[3] + Len(call[1]) <= Len(arg)
      /\ (call[1] # <<>> /\ call[2] \in DOMAIN tree) =>
           \A sub \in fuzzyCalls(tree, call[1], call[2]) :
             /\ Len(call[1]) - Len(sub[1]) \in {1, 2}
             /\ Len(sub[1]) < Len(call[1])

C16_Witness ==
  /\ lastOp = "getCorrections"
  /\ inserted = { coot }
  /\ arg = <<"c","c","o","o","t","t">>
  /\ \E call \in calls : call[3] = 3 /\ call[1] = <<"t","t">> /\ call[2] = <<"c","o","o">>
  /\ \E call \in calls : call[3] = 4 /\ call[1] = <<>> /\ call[2] = coot

\* C17 as stated: addWord removes no node, clears no endpoint flag and
\* leaves the stored word of every node that existed before the call; it
\* changes only new nodes on the word's path and the final node's flag.
C17_InsertionKeepsExistingNodes ==
  [][(lastOp' = "addWord") =>
       /\ DOMAIN tree \subseteq DOMAIN tree'
       /\ \A n \in DOMAIN tree :
            /\ tree[n].isEndpoint => tree'[n].isEndpoint
            /\ tree'[n].word = tree[n].word
            /\ (tree'[n].isEndpoint # tree[n].isEndpoint)
                 => n = ToLower(Letters(arg'))
       /\ \A n \in DOMAIN tree' \ DOMAIN tree :
            n \in Prefixes(ToLower(Letters(arg')))]_vars

\* C18: search and getCorrections leave the tree and the node count as they
\* were, as does every step that is not addWord, and what they return is
\* determined by that tree and their argument.
C18_QueriesArePure ==
  [][/\ (lastOp' # "addWord") => (tree' = tree /\ nodeCount' = nodeCount)
     /\ (lastOp' = "search") => (found' = search(tree', arg'))
     /\ (lastOp' = "getCorrections") =>
          (results' = getCorrections(tree', arg'))]_vars

C18_Witness ==
  /\ lastOp = "getCorrections"
  /\ inserted = { cat, <<"C","a","t">> }
  /\ arg = <<"c","u","t">>
  /\ results = { tree[cat].word }
  /\ nodeCount = 3

\* C19: over a lowercase alphabetic dictionary every correction d of an
\* alphabetic query q that search does not find has
\* Len(d) <= Len(q) <= 2 * Len(d).
C19_LengthBound ==
  (/\ lastOp = "getCorrections"
   /\ LowercaseDictionary
   /\ IsAlphabetic(arg)
   /\ ~search(tree, arg)) =>
    \A d \in results : Len(d) <= Len(arg) /\ Len(arg) <= 2 * Len(d)

C19_Witness ==
  /\ lastOp = "getCorrections"
  /\ LowercaseDictionary
  /\ arg = <<"c","c","o","o","t","t">>
  /\ results = { cot }

\* the tree and node count after addWord of every word of a set, in an
\* order of the set's own
RECURSIVE InsertAll(_, _, _)
InsertAll(t, count, words) ==
  IF words = {}
  THEN [tree |-> t, nodeCount |-> count]
  ELSE LET w == CHOOSE x \in words : TRUE
           r == addWord(t, count, w)
       IN InsertAll(r.tree, r.nodeCount, words \ {w})

\* C20: after the lowercase alphabetic words of a set have been inserted in
\* any order and any number of times, the tree, the node count and the
\* results of search and getCorrections are those of one fixed order.
C20_InsertionOrderIndependence ==
  LowercaseDictionary =>
    LET one == InsertAll([n \in {Root} |-> NewNode], 0, inserted) IN
    /\ tree = one.tree
    /\ nodeCount = one.nodeCount
    /\ (lastOp = "search") => (found = search(one.tree, arg))
    /\ (lastOp = "getCorrections") => (results = getCorrections(one.tree, arg))

C20_Witness ==
  /\ lastOp = "addWord"
  /\ inserted = { cat, cot, coot, dog }
  /\ arg = cot
  /\ nodeCount = 10

LowercaseQueries == { x \in CorrectQueries : IsLowerAlphabetic(x) }

\* C21: when addWord leaves a dictionary of lowercase alphabetic words, a
\* lowercase alphabetic query that search finds neither before nor after
\* the call gets every correction it got before; a correction is lost only
\* by a query that search did not find before the call and finds after it.
C21_CorrectionsOnlyGrow ==
  [][(lastOp' = "addWord" /\ \A w \in inserted' : IsLowerAlphabetic(w)) =>
       \/ tree' = tree
       \/ \A q \in LowercaseQueries :
            LET before == getCorrections(tree, q)
                after  == getCorrections(tree', q)
            IN /\ (~search(tree, q) /\ ~search(tree', q))
                    => before \subseteq after
               /\ ~(before \subseteq after)
                    => (~search(tree, q) /\ search(tree', q))]_vars

C21_Witness ==
  /\ lastOp = "addWord"
  /\ arg = cot
  /\ inserted = { cat, cot }
  /\ ~search(tree, cit)
  /\ getCorrections(InsertAll([n \in {Root} |-> NewNode], 0, { cat }).tree, cit)
       = { cat }
  /\ getCorrections(tree, cit) = { cat, cot }

====
